---- MODULE Spec2Model ----
(***************************************************************************)
(* The batch loaders of src/database.  A run is one of the scripts:        *)
(* EnhancedDataLoader.load_all_tables (enhanced_data_loader.py), with      *)
(* load_table_with_retry unfolded into its steps (read-and-clean,          *)
(* truncate, one write attempt per step, count), the main of               *)
(* final_corrected_import.py, or SimpleEnhancedLoader.load_all_data        *)
(* (simple_enhanced_loader.py).                                            *)
(*                                                                         *)
(* A dataframe is represented by its row count and by the number of its    *)
(* rows whose primary key is null; a relation of the store by its row      *)
(* count.  Messages (errors, warnings) are records [kind, a, b].           *)
(***************************************************************************)
EXTENDS Integers, Sequences, FiniteSets, TLC

VARIABLES
    loader,         \* the script that runs: "enhanced", "final" or "simple"
    pc,             \* position of the run in load_all_tables / load_table_with_retry
    i,              \* index of table_name in loading_order (the for loop of line 581)
    store,          \* rows held by each relation of schema clinical_data
    loading_stats,  \* self.loading_stats
    table_stats,    \* table_stats of the load_table_with_retry call in progress
    df,             \* the dataframe read from the csv file of the table in progress
    df_clean,       \* the dataframe returned by clean_dataframe
    pk_log,         \* "Dropped n rows with null primary key" warnings logged for the table
    batch_num,      \* loop variable of line 410
    attempt,        \* loop variable of line 416
    h,              \* history of the load in progress or just returned: write attempts,
                    \* failed attempts and outcome per batch, truncate, count,
                    \* outcome of get_table_schema, what validate_csv_file found
                    \* in the file; and the counts returned by the
                    \* queries of validate_referential_integrity
    faults,         \* number of environment faults injected so far
    focus,          \* the table whose load receives the non-nominal inputs ("" if none yet)
    success_count,  \* success_count of main, final_corrected_import.py
    stats,          \* self.stats of SimpleEnhancedLoader
    loaded_rows,    \* loaded_rows of load_with_batch_processing
    rows_loaded,    \* rows_loaded of load_all_data, what the import returned:
                    \* <<n>> for the integer n, << >> for None
    success,        \* success of main, simple_enhanced_loader.py ("none" until set)
    integrity_ok,   \* integrity_ok of load_all_data: << >> until set, then <<b>>
    fk_enforced,    \* the relations of clinical_data carry their foreign-key constraints
    verifications,  \* number of calls of validate_referential_integrity so far
    frame,          \* a dataframe given to clean_dataframe, cell by cell, with the
                    \* schema of its table
    cleaned,        \* what clean_dataframe returned for frame, and what it logged
    relation,       \* the content of the child column and of the parent column of
                    \* one relationship in the store
    report,         \* the results of validate_referential_integrity on relation,
                    \* of EnhancedDataLoader and of ComprehensiveValidator
    args,           \* the arguments of a call of one of the other functions
                    \* checked on their own (column mapping, batch slicing, ...)
    returned,       \* what each implementation of that function returned
    run_log,        \* when load_all_tables is run twice: for each table of the
                    \* first run, the source read and the behaviour of the store
                    \* during its load (df, df_clean and h when it returned)
    first_run       \* << >> until a second run starts, then what the first
                    \* run returned: whether it connected, the csv files it
                    \* did not find and its table_stats

vars == <<loader, pc, i, store, loading_stats, table_stats, df, df_clean, pk_log,
          batch_num, attempt, h, faults, focus, success_count,
          stats, loaded_rows, rows_loaded, success, integrity_ok, fk_enforced,
          verifications, frame, cleaned, relation, report, args, returned,
          run_log, first_run>>

----------------------------------------------------------------------------
(* Bounds of the model *)

MaxOtherTables == 1 \* csv files present in csv_dir besides the first one
MaxPlainTables == 1 \* tables named by no relationship whose csv file may be present
MaxFaults == 2      \* environment faults per run: a failed truncate, a failed query,
                    \* the failed write attempts of one batch, ...
MaxBatches == 2     \* batches of the largest csv file
MaxNullPk == 2      \* rows with a null primary key in a csv file
InitRows == 2       \* rows in each relation before the run
MaxOrphans == 2     \* child rows of a relationship that reference no parent row
MaxFrameRows == 2   \* rows of a dataframe cleaned cell by cell
MaxRelationRows == 2 \* rows of the child and of the parent relation of a relationship
MaxSliceRows == 5   \* rows of a dataframe cut into batches of any size
MaxBatchSize == 3   \* the batch sizes tried on those dataframes

----------------------------------------------------------------------------
(* Configuration, EnhancedDataLoader.__init__ *)

batch_size == 1000

max_retries == 3

\* the order with encounters moved before its parent providers
loading_order_child_first ==
    << "organizations", "payers", "patients", "encounters", "providers",
       "conditions", "medications", "procedures", "observations",
       "immunizations", "allergies", "care_plans" >>

loading_order ==
    << "organizations", "payers", "patients", "providers", "encounters",
       "conditions", "medications", "procedures", "observations",
       "immunizations", "allergies", "care_plans" >>

Tables == { loading_order[k] : k \in 1..Len(loading_order) }

\* (child_table, child_col, parent_table, parent_col)
relationships ==
    << <<"providers", "organization_id", "organizations", "id">>,
       <<"encounters", "patient_id", "patients", "id">>,
       <<"encounters", "organization_id", "organizations", "id">>,
       <<"encounters", "provider_id", "providers", "id">>,
       <<"encounters", "payer_id", "payers", "id">>,
       <<"conditions", "patient_id", "patients", "id">>,
       <<"conditions", "encounter_id", "encounters", "id">>,
       <<"medications", "patient_id", "patients", "id">>,
       <<"medications", "encounter_id", "encounters", "id">>,
       <<"medications", "payer_id", "payers", "id">> >>

Min(a, b) == IF a < b THEN a ELSE b

Msg(kind, a, b) == [kind |-> kind, a |-> a, b |-> b]

----------------------------------------------------------------------------
(* The target store *)

Children(t) ==
    { relationships[k][1] : k \in { j \in 1..Len(relationships) : relationships[j][3] = t } }

RECURSIVE Cascade(_, _)
Cascade(S, n) ==
    IF n = 0 THEN S
    ELSE Cascade(S \cup UNION { Children(t) : t \in S }, n - 1)

\* truncate_first off: the relations keep their rows
TruncateCascade_none(st, t) == st

\* TRUNCATE TABLE clinical_data.t CASCADE: t and every relation referencing it
\* through a foreign-key constraint
TruncateCascade(st, t) ==
    [x \in Tables |->
        IF x = t \/ (fk_enforced /\ x \in Cascade({t}, Len(loading_order)))
        THEN 0 ELSE st[x]]

\* if_exists='replace': the relation is emptied by every write
ToSql_replace(st, t, n) == [st EXCEPT ![t] = n]

\* DataFrame.to_sql(if_exists='append') of n rows in one transaction
ToSql(st, t, n) == [st EXCEPT ![t] = @ + n]

----------------------------------------------------------------------------
(* Inputs *)

\* sizes of a csv file: one batch, an exact multiple, one row over
RowCounts ==
    {1} \cup { k * batch_size : k \in 1..(MaxBatches - 1) }
        \cup { (MaxBatches - 1) * batch_size + 1 }

NoStats == [table_name |-> "", total_rows_in_csv |-> 0, rows_loaded |-> 0,
            batches_processed |-> 0, errors |-> <<>>, warnings |-> <<>>,
            success |-> FALSE]

NoDf == [rows |-> 0, null_pk |-> 0]

NoHistory == [attempts |-> <<>>, failures |-> <<>>, result |-> <<>>,
              truncated |-> "no", counted |-> FALSE, external |-> FALSE,
              schema |-> "none", orphans |-> <<>>, csv |-> "read"]

\* a non-nominal input is given to one table of the run only, and to none
\* when the store is the non-nominal one (no foreign-key constraint)
MayDeviate(t) == focus \in {"", t}

MayFail(t) == MayDeviate(t) /\ faults < MaxFaults

Init ==
    /\ loader \in {"enhanced", "final", "simple"}
    /\ pc = "start"
    /\ success_count = 0
    /\ i = 1
    /\ store = [t \in Tables |-> InitRows]
    /\ loading_stats = [tables_processed |-> 0, total_rows_loaded |-> 0,
                        errors |-> <<>>, warnings |-> <<>>,
                        table_stats |-> <<>>, integrity_check |-> <<>>,
                        success |-> FALSE]
    /\ table_stats = NoStats
    /\ df = NoDf
    /\ df_clean = NoDf
    /\ pk_log = <<>>
    /\ batch_num = 0
    /\ attempt = 0
    /\ h = NoHistory
    /\ faults = 0
    /\ fk_enforced \in BOOLEAN
    /\ focus = IF fk_enforced THEN "" ELSE "store"
    /\ integrity_ok = << >>
    /\ verifications = 0
    /\ stats = [tables_loaded |-> 0, total_rows |-> 0, errors |-> <<>>,
                warnings |-> <<>>]
    /\ loaded_rows = 0
    /\ rows_loaded = <<0>>
    /\ success = "none"
    /\ frame = << >>
    /\ cleaned = << >>
    /\ relation = << >>
    /\ report = << >>
    /\ args = << >>
    /\ returned = << >>
    /\ run_log = [on |-> FALSE, tables |-> << >>]
    /\ first_run = << >>

----------------------------------------------------------------------------
(* clean_dataframe, lines 289-335 *)

\* pk_columns of line 325: the schema's primary key, [] when get_table_schema
\* failed and returned {} (lines 246-248)
PkColumns(schema_ok) == IF schema_ok THEN {"id"} ELSE {}

\* the loop of lines 326-332 drops the rows of a primary-key column that is a
\* column of the dataframe
Drops(schema_ok, pk_in_df) == PkColumns(schema_ok) # {} /\ pk_in_df

\* rows with a null key dropped whatever the schema says
clean_dataframe_always_drop(d, schema_ok, pk_in_df) ==
    [rows |-> d.rows - d.null_pk, null_pk |-> 0]

clean_dataframe(d, schema_ok, pk_in_df) ==
    IF Drops(schema_ok, pk_in_df)
    THEN [rows |-> d.rows - d.null_pk, null_pk |-> 0]
    ELSE d

\* logger.warning of line 332: one message per primary-key column that lost
\* rows, carrying the number of rows dropped
CleanLog(d, schema_ok, pk_in_df) ==
    IF Drops(schema_ok, pk_in_df) /\ d.null_pk > 0
    THEN << Msg("dropped_null_pk", d.null_pk, 0) >>
    ELSE << >>

----------------------------------------------------------------------------
(* load_table_with_retry, lines 357-460, and its caller's bookkeeping *)

total_batches(n) == (n + batch_size - 1) \div batch_size

start_idx(b) == b * batch_size

end_idx(b, n) == Min((b + 1) * batch_size, n)

\* len(df_batch) of the batch in progress
BatchLen == end_idx(batch_num, df_clean.rows) - start_idx(batch_num)

table_name == loading_order[i]

\* lines 592-599 of load_all_tables, after load_table_with_retry returned ts
Record(ls, ts) ==
    [ls EXCEPT !.table_stats = (ts.table_name :> ts) @@ @,
               !.tables_processed = @ + 1,
               !.total_rows_loaded = @ + ts.rows_loaded,
               !.errors = @ \o ts.errors,
               !.warnings = @ \o ts.warnings]

\* a loop that is left when a table returns errors
Return_stop_on_error(ts) ==
    /\ table_stats' = ts
    /\ loading_stats' = Record(loading_stats, ts)
    /\ i' = IF ts.errors = << >> THEN i + 1 ELSE Len(loading_order) + 1
    /\ pc' = "loop"
    /\ batch_num' = 0
    /\ attempt' = 0

\* load_table_with_retry returns ts and the loop of line 581 goes on
Return(ts) ==
    /\ table_stats' = ts
    /\ loading_stats' = Record(loading_stats, ts)
    /\ i' = i + 1
    /\ pc' = "loop"
    /\ batch_num' = 0
    /\ attempt' = 0

\* a step of EnhancedDataLoader.load_all_tables
EnhancedStep ==
    /\ loader = "enhanced"
    /\ UNCHANGED <<loader, success_count, stats, loaded_rows, rows_loaded, success,
                   integrity_ok, fk_enforced, frame, cleaned, relation, report,
                   args, returned, first_run>>
    /\ verifications' = IF pc = "integrity" THEN verifications + 1 ELSE verifications
    /\ run_log' = IF run_log.on /\ first_run = << >> /\ pc = "loop"
                      /\ table_stats.table_name # ""
                   THEN [run_log EXCEPT !.tables =
                           (table_stats.table_name :>
                               [h |-> h, df |-> df, df_clean |-> df_clean]) @@ @]
                   ELSE run_log

\* a step of the main of final_corrected_import.py
FinalStep ==
    /\ loader = "final"
    /\ UNCHANGED <<loader, loading_stats, table_stats, df_clean, pk_log,
                   batch_num, attempt, stats, loaded_rows, rows_loaded, success,
                   integrity_ok, fk_enforced, verifications, frame, cleaned,
                   relation, report, args, returned, run_log, first_run>>

\* a step of SimpleEnhancedLoader.load_all_data
SimpleStep ==
    /\ loader = "simple"
    /\ UNCHANGED <<loader, loading_stats, table_stats, df_clean, pk_log,
                   attempt, success_count, fk_enforced, frame, cleaned, relation,
                   report, args, returned, run_log, first_run>>
    /\ verifications' = IF pc = "integrity" THEN verifications + 1 ELSE verifications

Fault(t) ==
    /\ MayFail(t)
    /\ faults' = faults + 1
    /\ focus' = t

NoFault == UNCHANGED <<faults, focus>>

\* lines 571-578
Start ==
    /\ EnhancedStep
    /\ pc = "start"
    /\ \E connected \in BOOLEAN :
         pc' = IF connected THEN "loop" ELSE "done"
    /\ UNCHANGED loading_stats
    /\ UNCHANGED <<i, store, table_stats, df, df_clean, pk_log, batch_num, attempt,
                   h, faults, focus>>

\* warnings of line 586 for the tables loading_order[a..b]
NotFound(a, b) == [k \in 1..(b - a + 1) |-> Msg("csv_not_found", a + k - 1, 0)]

\* the tables that some relationship names
Related ==
    { relationships[k][1] : k \in 1..Len(relationships) }
        \cup { relationships[k][3] : k \in 1..Len(relationships) }

\* csv_file.exists() of line 584 may hold of loading_order[k]: the table is
\* named by a relationship, or is one of the first MaxPlainTables others
MayExist(k) ==
    \/ loading_order[k] \in Related
    \/ Cardinality({ j \in 1..k : loading_order[j] \notin Related }) <= MaxPlainTables

\* lines 581-587: the loop passes the tables whose csv file does not exist and
\* stops at the next table whose csv file exists, loading_order[j], or ends
SkipTables ==
    /\ EnhancedStep
    /\ pc = "loop"
    /\ \E j \in i..(Len(loading_order) + 1) :
         /\ j <= Len(loading_order) =>
               /\ loading_stats.tables_processed <= MaxOtherTables
               /\ MayExist(j)
         /\ loading_stats' = [loading_stats EXCEPT
                                !.warnings = @ \o NotFound(i, j - 1)]
         /\ i' = j
         /\ pc' = IF j <= Len(loading_order) THEN "load" ELSE "integrity"
    /\ table_stats' = NoStats
    /\ df' = NoDf
    /\ df_clean' = NoDf
    /\ pk_log' = <<>>
    /\ h' = NoHistory
    /\ UNCHANGED <<store, batch_num, attempt, faults, focus>>

\* lines 360-378: validate_csv_file rejects the file
RejectCsv ==
    /\ EnhancedStep
    /\ pc = "load"
    /\ Fault(table_name)
    /\ \E issue \in {"csv_empty", "csv_no_data_rows", "csv_validation_error"} :
         /\ Return([NoStats EXCEPT !.table_name = table_name,
                                   !.errors = << Msg(issue, 0, 0) >>])
         /\ h' = [h EXCEPT !.csv = issue]
    /\ UNCHANGED <<store, df, df_clean, pk_log>>

\* lines 380-398: read the csv file and clean it
ReadAndClean ==
    /\ EnhancedStep
    /\ pc = "load"
    /\ \E rows \in RowCounts, schema_ok, pk_in_df \in BOOLEAN :
       \E null_pk \in 0..Min(rows, MaxNullPk) :
         LET d  == [rows |-> rows, null_pk |-> null_pk]
             c  == clean_dataframe(d, schema_ok, pk_in_df)
             ts == [NoStats EXCEPT !.table_name = table_name,
                                   !.total_rows_in_csv = rows]
         IN  /\ \/ rows = 1 /\ null_pk = 0 /\ schema_ok /\ pk_in_df /\ NoFault
                \/ (rows # 1 \/ null_pk # 0 \/ ~pk_in_df) /\ schema_ok
                     /\ MayDeviate(table_name)
                     /\ focus' = table_name /\ UNCHANGED faults
                \/ ~schema_ok /\ Fault(table_name)
             /\ df' = d
             /\ df_clean' = c
             /\ pk_log' = CleanLog(d, schema_ok, pk_in_df)
             /\ h' = [h EXCEPT !.schema = IF schema_ok THEN "ok" ELSE "failed"]
             /\ IF c.rows = 0
                THEN Return([ts EXCEPT
                               !.warnings = Append(@, Msg("no_valid_data", 0, 0)),
                               !.success = TRUE])
                ELSE /\ table_stats' = ts
                     /\ pc' = "truncate"
                     /\ UNCHANGED <<i, loading_stats, batch_num, attempt>>
    /\ UNCHANGED store

\* the statements of the try block of lines 373-448 that may raise: read_csv
\* (382), TRUNCATE (403), SELECT COUNT(*) (440)
read_csv == 1
truncate == 2
count == 3

\* the except clause of lines 450-454, then the return of line 460
\* ("Unexpected error loading <table>: <e>"), e naming the statement that raised
Unexpected(ts, e) ==
    [ts EXCEPT !.errors = Append(@, Msg("unexpected_error", e, 0))]

\* line 382: read_csv raises on a file that validate_csv_file accepted from
\* its first rows
ReadFailed ==
    /\ EnhancedStep
    /\ pc = "load"
    /\ Fault(table_name)
    /\ Return(Unexpected([NoStats EXCEPT !.table_name = table_name], read_csv))
    /\ h' = [h EXCEPT !.csv = "read_failed"]
    /\ UNCHANGED <<store, df, df_clean, pk_log>>

\* lines 400-404
Truncate ==
    /\ EnhancedStep
    /\ pc = "truncate"
    /\ \/ /\ store' = TruncateCascade(store, table_name)
          /\ h' = [h EXCEPT
                     !.attempts = [b \in 1..total_batches(df_clean.rows) |-> 0],
                     !.failures = [b \in 1..total_batches(df_clean.rows) |-> 0],
                     !.result = [b \in 1..total_batches(df_clean.rows) |-> "pending"],
                     !.truncated = "done"]
          /\ pc' = "batches"
          /\ batch_num' = 0
          /\ attempt' = 0
          /\ NoFault
          /\ UNCHANGED <<i, loading_stats, table_stats>>
       \/ /\ Fault(table_name)
          /\ Return(Unexpected(table_stats, truncate))
          /\ h' = [h EXCEPT !.truncated = "failed"]
          /\ UNCHANGED store
    /\ UNCHANGED <<df, df_clean, pk_log>>

\* a retry loop that runs two attempts too many
HasNextAttempt_two_more(a) == a + 1 < max_retries + 2

\* a retry loop that stops one attempt early
HasNextAttempt_one_less(a) == a + 1 < max_retries - 1

\* range(self.max_retries) of line 416 has an attempt after attempt a
HasNextAttempt(a) == a + 1 < max_retries

\* an error recorded at every failed attempt
GivesUp_every_attempt(a) == TRUE

\* the else of lines 427-428: attempt a was the last one
GivesUp(a) == ~(a < max_retries - 1)

\* the loop of line 410 goes to the next batch, or ends
NextBatch ==
    IF batch_num + 1 < total_batches(df_clean.rows)
    THEN batch_num' = batch_num + 1 /\ attempt' = 0 /\ pc' = "batches"
    ELSE batch_num' = batch_num /\ attempt' = attempt /\ pc' = "verify"

Attempted(res) ==
    h' = [h EXCEPT !.attempts[batch_num + 1] = @ + 1,
                   !.failures[batch_num + 1] = IF res = "succeeded" THEN @ ELSE @ + 1,
                   !.result[batch_num + 1] = res]

\* a batch written on a retry is not counted
Loaded_first_attempt_only(ts, rows) ==
    IF attempt = 0
    THEN [ts EXCEPT !.rows_loaded = @ + rows, !.batches_processed = @ + 1]
    ELSE ts

\* lines 420-421, rows being the rows_loaded returned by load_table_batch
Loaded(ts, rows) ==
    [ts EXCEPT !.rows_loaded = @ + rows, !.batches_processed = @ + 1]

\* without the break the retry loop goes on after a successful write
Break_missing ==
    IF HasNextAttempt(attempt)
    THEN attempt' = attempt + 1 /\ batch_num' = batch_num /\ pc' = "batches"
    ELSE NextBatch

\* the break of line 422 leaves the retry loop
Break == NextBatch

\* lines 418-422: load_table_batch wrote the batch
BatchLoaded ==
    /\ EnhancedStep
    /\ pc = "batches"
    /\ store' = ToSql(store, table_name, BatchLen)
    /\ table_stats' = Loaded(table_stats, BatchLen)
    /\ Attempted("succeeded")
    /\ Break
    /\ NoFault
    /\ UNCHANGED <<i, loading_stats, df, df_clean, pk_log>>

\* lines 423-428: load_table_batch caught the error of to_sql and returned
\* (False, 0); the transaction of to_sql left the relation as it was.  Every
\* exception of to_sql is caught in load_table_batch (lines 353-355), so the
\* except clause of lines 430-436 is never entered.
BatchFailed ==
    /\ EnhancedStep
    /\ pc = "batches"
    /\ IF attempt = 0 THEN Fault(table_name) ELSE NoFault
    /\ IF GivesUp(attempt)
       THEN table_stats' = [table_stats EXCEPT
                !.errors = Append(@, Msg("batch_failed", batch_num + 1, max_retries))]
       ELSE table_stats' = table_stats
    /\ IF HasNextAttempt(attempt)
       THEN /\ attempt' = attempt + 1
            /\ Attempted("retrying")
            /\ UNCHANGED <<batch_num, pc>>
       ELSE /\ Attempted("failed")
            /\ NextBatch
    /\ UNCHANGED <<i, store, loading_stats, df, df_clean, pk_log>>

\* another session of the database adds a row to the relation being loaded,
\* at some time before the rows are counted
ExternalInsert ==
    /\ EnhancedStep
    /\ pc = "verify"
    /\ ~h.external
    /\ Fault(table_name)
    /\ store' = ToSql(store, table_name, 1)
    /\ h' = [h EXCEPT !.external = TRUE]
    /\ UNCHANGED <<pc, i, loading_stats, table_stats, df, df_clean, pk_log,
                   batch_num, attempt>>

\* the mismatch is reported but the in-memory sum is kept
Reconcile_keep_sum(ts, actual_count) ==
    IF actual_count # ts.rows_loaded
    THEN [ts EXCEPT !.warnings = Append(@, Msg("row_count_mismatch",
                                               ts.rows_loaded, actual_count))]
    ELSE ts

\* lines 443-446
Reconcile(ts, actual_count) ==
    IF actual_count # ts.rows_loaded
    THEN [ts EXCEPT !.warnings = Append(@, Msg("row_count_mismatch",
                                               ts.rows_loaded, actual_count)),
                    !.rows_loaded = actual_count]
    ELSE ts

\* line 448
Succeeded(ts) == [ts EXCEPT !.success = (Len(ts.errors) = 0)]

\* lines 438-460: count the rows of the relation and return
Verify ==
    /\ EnhancedStep
    /\ pc = "verify"
    /\ \/ /\ Return(Succeeded(Reconcile(table_stats, store[table_name])))
          /\ h' = [h EXCEPT !.counted = TRUE]
          /\ NoFault
       \/ /\ Fault(table_name)
          /\ Return(Unexpected(table_stats, count))
          /\ UNCHANGED h
    /\ UNCHANGED <<store, df, df_clean, pk_log>>

----------------------------------------------------------------------------
(* load_all_tables, lines 606-635 *)

\* the orphaned rows the store holds for the relationships rels, as the
\* anti-join of each relationship counts them: none under foreign-key
\* constraints, otherwise some child rows of at most one relationship
OrphanCounts(rels) ==
    UNION { { [k \in 1..Len(rels) |-> IF k = r THEN n ELSE 0] :
                n \in 0..(IF fk_enforced THEN 0
                          ELSE Min(store[rels[r][1]], MaxOrphans)) } :
            r \in 1..Len(rels) }

\* lines 502-510: integrity_results['details'] after the first n relationships
RECURSIVE Details(_, _)
Details(counts, n) ==
    IF n = 0 THEN << >>
    ELSE IF counts[n] > 0
         THEN Append(Details(counts, n - 1),
                     [child_table |-> relationships[n][1],
                      child_column |-> relationships[n][2],
                      parent_table |-> relationships[n][3],
                      parent_column |-> relationships[n][4],
                      orphaned_records |-> counts[n]])
         ELSE Details(counts, n - 1)

\* line 503: integrity_results['violations_found'] after the first n relationships
RECURSIVE ViolationsFound(_, _)
ViolationsFound(counts, n) ==
    IF n = 0 THEN 0 ELSE counts[n] + ViolationsFound(counts, n - 1)

\* a result that names no violated relationship
IntegrityResults_without_details(counts, k, raised) ==
    [checks_performed |-> k,
     violations_found |-> ViolationsFound(counts, k),
     details |-> << >>,
     error |-> raised]

\* lines 466-519: the result when checks_performed reached k and, if raised,
\* the connection (k = 0) or the query of relationship k raised
IntegrityResults(counts, k, raised) ==
    LET counted == IF raised /\ k > 0 THEN k - 1 ELSE k
    IN  [checks_performed |-> k,
         violations_found |-> ViolationsFound(counts, counted),
         details |-> Details(counts, counted),
         error |-> raised]

\* validate_referential_integrity, lines 462-519, and line 609
ValidateIntegrity ==
    /\ EnhancedStep
    /\ pc = "integrity"
    /\ \E counts \in OrphanCounts(relationships), raised \in BOOLEAN :
       \E k \in 0..Len(relationships) :
         /\ ~raised => k = Len(relationships)
         /\ IF raised THEN Fault("") ELSE NoFault
         /\ loading_stats' = [loading_stats EXCEPT
                                !.integrity_check = IntegrityResults(counts, k, raised)]
         /\ h' = [h EXCEPT !.orphans = counts]
    /\ pc' = "report"
    /\ UNCHANGED <<i, store, table_stats, df, df_clean, pk_log, batch_num, attempt>>

\* lines 613-635
Report ==
    /\ EnhancedStep
    /\ pc = "report"
    /\ loading_stats' = [loading_stats EXCEPT !.success = (Len(loading_stats.errors) = 0)]
    /\ pc' = "done"
    /\ UNCHANGED <<i, store, table_stats, df, df_clean, pk_log, batch_num, attempt,
                   h, faults, focus>>

----------------------------------------------------------------------------
(* final_corrected_import.py: main, lines 354-394, and import_providers,   *)
(* import_encounters, import_conditions, import_medications, lines 49-273  *)

\* the imports of main, lines 378-385
final_imports == << "providers", "encounters", "conditions", "medications" >>

final_table == final_imports[i]

\* import_* returned; main goes to the next import
FinalReturn(ok) ==
    /\ success_count' = IF ok THEN success_count + 1 ELSE success_count
    /\ i' = i + 1
    /\ pc' = "read"

\* main, lines 361-369: the connection test
FinalStart ==
    /\ FinalStep
    /\ pc = "start"
    /\ \E connected \in BOOLEAN :
         pc' = IF connected THEN "read" ELSE "done"
    /\ UNCHANGED <<i, store, df, h, faults, focus, success_count>>

\* import_*: read_csv, column mapping, conversions, df[expected_columns]
\* (lines 53-90 of import_providers); an exception returns False (100-102)
FinalRead ==
    /\ FinalStep
    /\ pc = "read"
    /\ i <= Len(final_imports)
    /\ \/ \E rows \in RowCounts :
            /\ \/ rows = 1 /\ NoFault
               \/ rows # 1 /\ MayDeviate(final_table)
                    /\ focus' = final_table /\ UNCHANGED faults
            /\ df' = [rows |-> rows, null_pk |-> 0]
            /\ h' = [NoHistory EXCEPT !.attempts = <<0>>, !.failures = <<0>>,
                                      !.result = <<"pending">>]
            /\ pc' = "truncate"
            /\ UNCHANGED <<i, success_count>>
       \/ /\ Fault(final_table)
          /\ FinalReturn(FALSE)
          /\ df' = NoDf
          /\ h' = NoHistory
    /\ UNCHANGED store

\* truncate_table, lines 37-47, called at line 93 (157, 203, 264): the result
\* of truncate_table is not looked at
FinalTruncate ==
    /\ FinalStep
    /\ pc = "truncate"
    /\ \/ /\ store' = TruncateCascade(store, final_table)
          /\ h' = [h EXCEPT !.truncated = "done"]
          /\ NoFault
       \/ /\ Fault(final_table)
          /\ h' = [h EXCEPT !.truncated = "failed"]
          /\ UNCHANGED store
    /\ pc' = "write"
    /\ UNCHANGED <<i, df, success_count>>

\* df.to_sql of the whole dataframe, lines 94-102
FinalWrite ==
    /\ FinalStep
    /\ pc = "write"
    /\ \/ /\ store' = ToSql(store, final_table, df.rows)
          /\ h' = [h EXCEPT !.attempts[1] = @ + 1, !.result[1] = "succeeded"]
          /\ FinalReturn(TRUE)
          /\ NoFault
       \/ /\ Fault(final_table)
          /\ h' = [h EXCEPT !.attempts[1] = @ + 1, !.failures[1] = @ + 1,
                            !.result[1] = "failed"]
          /\ FinalReturn(FALSE)
          /\ UNCHANGED store
    /\ UNCHANGED df

\* main, lines 387-394
FinalSummary ==
    /\ FinalStep
    /\ pc = "read"
    /\ i > Len(final_imports)
    /\ pc' = "done"
    /\ UNCHANGED <<i, store, df, h, faults, focus, success_count>>

----------------------------------------------------------------------------
(* simple_enhanced_loader.py: load_all_data, lines 590-627, the import_*   *)
(* methods, lines 117-506, and load_with_batch_processing, lines 79-115    *)

\* the tables of loading_functions, lines 596-604
loading_functions ==
    << "organizations", "payers", "patients", "providers", "encounters",
       "conditions", "medications" >>

simple_table == loading_functions[i]

\* the value of a function that ends without a return statement
None == << >>

\* sizes of a csv file read without validation: it may hold no data row
SimpleRowCounts == RowCounts \cup {0}

\* lines 590-593
SimpleStart ==
    /\ SimpleStep
    /\ pc = "start"
    /\ pc' = "read"
    /\ UNCHANGED <<i, store, df, batch_num, h, faults, focus, stats,
                   loaded_rows, rows_loaded, success, integrity_ok>>

\* import_*: read_csv, column mapping, conversions, validate_and_clean_data,
\* expected columns (lines 406-438 of import_conditions); an exception is
\* recorded in self.stats['errors'] and the import returns 0 (446-449)
SimpleRead ==
    /\ SimpleStep
    /\ pc = "read"
    /\ i <= Len(loading_functions)
    /\ \/ \E rows \in SimpleRowCounts :
            /\ \/ rows = 1 /\ NoFault
               \/ rows # 1 /\ MayDeviate(simple_table)
                    /\ focus' = simple_table /\ UNCHANGED faults
            /\ df' = [rows |-> rows, null_pk |-> 0]
            /\ pc' = "truncate"
            /\ UNCHANGED <<stats, rows_loaded>>
       \/ /\ Fault(simple_table)
          /\ df' = NoDf
          /\ stats' = [stats EXCEPT !.errors = Append(@, Msg("import_error", i, 0))]
          /\ rows_loaded' = <<0>>
          /\ pc' = "returned"
    /\ h' = NoHistory
    /\ loaded_rows' = 0
    /\ batch_num' = 0
    /\ UNCHANGED <<i, store, success, integrity_ok>>

\* truncate_table, lines 50-60, called by `if self.truncate_table(...)`
\* (line 441): when it returns False the import falls off its end and returns
\* None; when it returns True load_with_batch_processing starts, and returns 0
\* at once for an empty dataframe (lines 84-86)
SimpleTruncate ==
    /\ SimpleStep
    /\ pc = "truncate"
    /\ \/ /\ store' = TruncateCascade(store, simple_table)
          /\ h' = [h EXCEPT
                     !.attempts = [b \in 1..total_batches(df.rows) |-> 0],
                     !.failures = [b \in 1..total_batches(df.rows) |-> 0],
                     !.result = [b \in 1..total_batches(df.rows) |-> "pending"],
                     !.truncated = "done"]
          /\ NoFault
          /\ IF df.rows = 0
             THEN rows_loaded' = <<0>> /\ pc' = "returned"
             ELSE rows_loaded' = rows_loaded /\ pc' = "batches"
       \/ /\ Fault(simple_table)
          /\ h' = [h EXCEPT !.truncated = "failed"]
          /\ rows_loaded' = None
          /\ pc' = "returned"
          /\ UNCHANGED store
    /\ UNCHANGED <<i, df, batch_num, stats, loaded_rows, success, integrity_ok>>

\* one iteration of the loop of lines 92-113: the batch is written, or the
\* error of to_sql is recorded and the loop continues; after the last batch
\* the import returns loaded_rows (line 115, line 444)
SimpleBatch ==
    /\ SimpleStep
    /\ pc = "batches"
    /\ LET len == end_idx(batch_num, df.rows) - start_idx(batch_num)
           last == ~(batch_num + 1 < total_batches(df.rows))
       IN  /\ \/ /\ store' = ToSql(store, simple_table, len)
                 /\ loaded_rows' = loaded_rows + len
                 /\ h' = [h EXCEPT !.attempts[batch_num + 1] = @ + 1,
                                   !.result[batch_num + 1] = "succeeded"]
                 /\ NoFault
                 /\ UNCHANGED stats
              \/ /\ Fault(simple_table)
                 /\ stats' = [stats EXCEPT !.errors =
                                Append(@, Msg("batch_error", i, batch_num + 1))]
                 /\ h' = [h EXCEPT !.attempts[batch_num + 1] = @ + 1,
                                   !.failures[batch_num + 1] = @ + 1,
                                   !.result[batch_num + 1] = "failed"]
                 /\ UNCHANGED <<store, loaded_rows>>
           /\ IF last
              THEN /\ rows_loaded' = <<loaded_rows'>>
                   /\ pc' = "returned"
                   /\ UNCHANGED batch_num
              ELSE /\ batch_num' = batch_num + 1
                   /\ UNCHANGED <<rows_loaded, pc>>
    /\ UNCHANGED <<i, df, success, integrity_ok>>

\* lines 608-611: `rows_loaded > 0` raises TypeError when the import returned
\* None, and nothing catches it: load_all_data and main end there
SimpleReturn ==
    /\ SimpleStep
    /\ pc = "returned"
    /\ IF rows_loaded = None
       THEN pc' = "crashed" /\ UNCHANGED <<i, stats>>
       ELSE /\ stats' = IF rows_loaded[1] > 0
                        THEN [stats EXCEPT !.tables_loaded = @ + 1,
                                           !.total_rows = @ + rows_loaded[1]]
                        ELSE stats
            /\ i' = i + 1
            /\ pc' = IF i < Len(loading_functions) THEN "read" ELSE "integrity"
    /\ UNCHANGED <<store, df, batch_num, h, faults, focus, loaded_rows,
                   rows_loaded, success, integrity_ok>>

\* the relationships of validate_referential_integrity, lines 515-524
checks ==
    << <<"providers", "organization_id", "organizations", "id">>,
       <<"encounters", "patient_id", "patients", "id">>,
       <<"encounters", "provider_id", "providers", "id">>,
       <<"encounters", "organization_id", "organizations", "id">>,
       <<"conditions", "patient_id", "patients", "id">>,
       <<"conditions", "encounter_id", "encounters", "id">>,
       <<"medications", "patient_id", "patients", "id">>,
       <<"medications", "encounter_id", "encounters", "id">> >>

RECURSIVE violations(_, _)
violations(counts, n) ==
    IF n = 0 THEN 0 ELSE counts[n] + violations(counts, n - 1)

\* lines 613-615 and validate_referential_integrity, lines 508-553: the
\* orphaned rows of the checks are summed and `violations == 0` is returned,
\* or False when the connection raises
SimpleIntegrity ==
    /\ SimpleStep
    /\ pc = "integrity"
    /\ \E counts \in OrphanCounts(checks), raised \in BOOLEAN :
         /\ IF raised THEN Fault("") ELSE NoFault
         /\ integrity_ok' = << ~raised /\ violations(counts, Len(checks)) = 0 >>
         /\ h' = [h EXCEPT !.orphans = counts]
    /\ pc' = "summary"
    /\ UNCHANGED <<i, store, df, batch_num, stats, loaded_rows, rows_loaded,
                   success>>

\* lines 617-627: generate_summary, and the value returned to main
SimpleFinish ==
    /\ SimpleStep
    /\ pc = "summary"
    /\ success' = (Len(stats.errors) = 0)
    /\ pc' = "done"
    /\ UNCHANGED <<i, store, df, batch_num, h, faults, focus, stats,
                   loaded_rows, rows_loaded, integrity_ok>>

----------------------------------------------------------------------------

Next ==
    \/ Start
    \/ SkipTables
    \/ RejectCsv
    \/ ReadAndClean
    \/ ReadFailed
    \/ Truncate
    \/ BatchLoaded
    \/ BatchFailed
    \/ ExternalInsert
    \/ Verify
    \/ ValidateIntegrity
    \/ Report
    \/ FinalStart
    \/ FinalRead
    \/ FinalTruncate
    \/ FinalWrite
    \/ FinalSummary
    \/ SimpleStart
    \/ SimpleRead
    \/ SimpleTruncate
    \/ SimpleBatch
    \/ SimpleReturn
    \/ SimpleIntegrity
    \/ SimpleFinish

Spec == Init /\ [][Next]_vars

----------------------------------------------------------------------------
(* clean_dataframe cell by cell, enhanced_data_loader.py lines 289-335 *)

\* a cell read from the csv file: missing, a text its column's type accepts,
\* or a text it does not accept
Cells == {"null", "text", "bad_text"}

\* str(col_info['type']).lower() of the columns of the schema
col_types == {"timestamp", "date", "numeric", "integer", "boolean", "uuid"}

\* the branch of lines 308-317 taken for col_type ("none": no conversion)
Branch(col_type) ==
    CASE col_type = "timestamp" -> "to_datetime"
      [] col_type = "date"      -> "to_date"
      [] col_type = "numeric"   -> "to_numeric"
      [] col_type = "integer"   -> "to_integer"
      [] col_type = "boolean"   -> "astype_boolean"
      [] OTHER                  -> "none"

\* pd.to_datetime / pd.to_numeric with errors='coerce' on one cell
Coerce(cell, branch) ==
    IF cell = "text"
    THEN CASE branch = "to_datetime" -> "Timestamp"
           [] branch = "to_date"     -> "date"
           [] branch = "to_numeric"  -> "float"
           [] branch = "to_integer"  -> "int"
    ELSE "null"

\* astype('boolean') raises when a value of the column is not bool-like
Raises(column, branch) ==
    branch = "astype_boolean" /\ \E k \in DOMAIN column : column[k] = "bad_text"

\* lines 307-322 for one column: the column after the try block
ConvertColumn(column, col_type) ==
    LET branch == Branch(col_type)
    IN  IF branch = "none" \/ Raises(column, branch)
        THEN column
        ELSE [k \in DOMAIN column |->
                IF branch = "astype_boolean"
                THEN (IF column[k] = "text" THEN "bool" ELSE "null")
                ELSE Coerce(column[k], branch)]

\* logger.warning of line 322
ConvertLog(name, column, col_type) ==
    IF Raises(column, Branch(col_type))
    THEN << [kind |-> "failed_to_convert_column", column |-> name] >>
    ELSE << >>

RECURSIVE DropNa(_)
\* df.dropna(subset=['id']), line 329
DropNa(rows) ==
    IF rows = << >> THEN << >>
    ELSE IF Head(rows).id = "null" THEN DropNa(Tail(rows))
         ELSE << Head(rows) >> \o DropNa(Tail(rows))

\* clean_dataframe(df, table_name) where f holds df and the schema of the table
CleanFrame(f) ==
    LET ids == [k \in DOMAIN f.rows |-> f.rows[k].id]
        vs  == [k \in DOMAIN f.rows |-> f.rows[k].v]
        cid == IF f.schema_ok THEN ConvertColumn(ids, f.types.id) ELSE ids
        cv  == IF f.schema_ok THEN ConvertColumn(vs, f.types.v) ELSE vs
        converted == [k \in DOMAIN f.rows |->
                        [n |-> f.rows[k].n, id |-> cid[k], v |-> cv[k]]]
        kept == IF f.schema_ok THEN DropNa(converted) ELSE converted
    IN  [rows |-> kept,
         log  |-> (IF f.schema_ok
                   THEN ConvertLog("id", ids, f.types.id) \o ConvertLog("v", vs, f.types.v)
                   ELSE << >>)
                  \o (IF Len(kept) < Len(converted)
                      THEN << [kind |-> "dropped_null_pk", column |-> "id"] >>
                      ELSE << >>)]

\* the dataframes of at most MaxFrameRows rows with a key column id and a
\* column v, and the schema get_table_schema returns for them
Frames ==
    UNION { { [rows |-> [k \in 1..n |-> [n |-> k, id |-> c[k][1], v |-> c[k][2]]],
               types |-> [id |-> tid, v |-> tv],
               schema_ok |-> ok] :
                 c \in [1..n -> Cells \X Cells], tid \in {"uuid", "integer"},
                 tv \in col_types, ok \in BOOLEAN } :
            n \in 0..MaxFrameRows }

\* clean_dataframe is applied to frame
Clean ==
    /\ frame # << >>
    /\ cleaned = << >>
    /\ cleaned' = CleanFrame(frame)
    /\ UNCHANGED <<run_log, first_run, loader, pc, i, store, loading_stats, table_stats, df, df_clean,
                   pk_log, batch_num, attempt, h, faults, focus, success_count, stats,
                   loaded_rows, rows_loaded, success, integrity_ok, fk_enforced,
                   verifications, frame, relation, report, args, returned>>

----------------------------------------------------------------------------
(* validate_referential_integrity on the content of a relationship,        *)
(* enhanced_data_loader.py lines 462-519 and comprehensive_validator.py    *)
(* lines 247-415                                                           *)

\* the SQL NULL in a column of identifiers
NULL == 0

\* the identifiers held by the columns of a relationship
Ids == {1, 2}

\* relationships of ComprehensiveValidator.validate_referential_integrity
validator_relationships ==
    << [name |-> "providers_organization", child_table |-> "providers",
        child_column |-> "organization_id", parent_table |-> "organizations",
        allow_null |-> TRUE],
       [name |-> "encounters_patient", child_table |-> "encounters",
        child_column |-> "patient_id", parent_table |-> "patients",
        allow_null |-> FALSE],
       [name |-> "encounters_provider", child_table |-> "encounters",
        child_column |-> "provider_id", parent_table |-> "providers",
        allow_null |-> TRUE],
       [name |-> "encounters_organization", child_table |-> "encounters",
        child_column |-> "organization_id", parent_table |-> "organizations",
        allow_null |-> TRUE],
       [name |-> "encounters_payer", child_table |-> "encounters",
        child_column |-> "payer_id", parent_table |-> "payers",
        allow_null |-> TRUE],
       [name |-> "conditions_patient", child_table |-> "conditions",
        child_column |-> "patient_id", parent_table |-> "patients",
        allow_null |-> FALSE],
       [name |-> "conditions_encounter", child_table |-> "conditions",
        child_column |-> "encounter_id", parent_table |-> "encounters",
        allow_null |-> TRUE],
       [name |-> "medications_patient", child_table |-> "medications",
        child_column |-> "patient_id", parent_table |-> "patients",
        allow_null |-> FALSE],
       [name |-> "medications_encounter", child_table |-> "medications",
        child_column |-> "encounter_id", parent_table |-> "encounters",
        allow_null |-> TRUE],
       [name |-> "medications_payer", child_table |-> "medications",
        child_column |-> "payer_id", parent_table |-> "payers",
        allow_null |-> TRUE] >>

\* the rows of `child c LEFT JOIN parent p ON c.f = p.id`, as pairs of row
\* numbers; 0 stands for the all-NULL parent row of a child row without match
LeftJoin(child, parent) ==
    { <<c, p>> \in (DOMAIN child) \X (DOMAIN parent) :
          child[c] # NULL /\ parent[p] # NULL /\ child[c] = parent[p] }
    \cup { <<c, 0>> : c \in { x \in DOMAIN child :
                                ~ \E p \in DOMAIN parent :
                                     child[x] # NULL /\ parent[p] # NULL
                                     /\ child[x] = parent[p] } }

\* the count without the condition c.f IS NOT NULL
Orphaned_counting_null(child, parent) ==
    Cardinality({ j \in LeftJoin(child, parent) : j[2] = 0 \/ parent[j[2]] = NULL })

\* SELECT COUNT( * ) ... WHERE c.f IS NOT NULL AND p.id IS NULL
Orphaned(child, parent) ==
    Cardinality({ j \in LeftJoin(child, parent) :
                     child[j[1]] # NULL /\ (j[2] = 0 \/ parent[j[2]] = NULL) })

\* SELECT COUNT( * ) FROM child WHERE f IS NULL
NullReferences(child) ==
    Cardinality({ c \in DOMAIN child : child[c] = NULL })

\* the column child_table.child_column in the store described by rel: the
\* column of rel is as given; any other column of a table of rel references
\* the row 1 of its parent
ChildColumn(rel, child_table, child_column) ==
    LET r == relationships[rel.r]
    IN  IF child_table = r[1] /\ child_column = r[2] THEN rel.child
        ELSE IF child_table = r[1] THEN [k \in DOMAIN rel.child |-> 1]
        ELSE IF child_table = r[3] THEN [k \in DOMAIN rel.parent |-> 1]
        ELSE << >>

\* the column id of parent_table in that store, as the relationship from
\* child_table sees it
ParentColumn(rel, child_table, child_column, parent_table) ==
    LET r == relationships[rel.r]
    IN  IF child_table = r[1] /\ child_column = r[2] THEN rel.parent
        ELSE << 1 >>

\* the store contents of one relationship: at most MaxRelationRows child rows
\* and parent rows, keys NULL or in Ids, parent keys neither unique nor
\* non-null when the relations carry no constraint
Relations ==
    UNION { { [r |-> r, child |-> c, parent |-> p] :
                 c \in [1..n -> {NULL} \cup Ids], p \in [1..m -> {NULL} \cup Ids],
                 r \in 1..Len(relationships) } :
            n \in 0..MaxRelationRows, m \in 0..MaxRelationRows }

\* violation_count of each relationship of EnhancedDataLoader (line 500)
EnhancedCounts(rel) ==
    [k \in 1..Len(relationships) |->
        Orphaned(ChildColumn(rel, relationships[k][1], relationships[k][2]),
                 ParentColumn(rel, relationships[k][1], relationships[k][2],
                              relationships[k][3]))]

\* rel_result of lines 352-405 for relationship r; failing is the number of
\* the query that raises (0: none)
RelResult(rel, r, failing) ==
    LET child  == ChildColumn(rel, r.child_table, r.child_column)
        parent == ParentColumn(rel, r.child_table, r.child_column, r.parent_table)
        nulls  == IF failing \in {1, 2} THEN 0 ELSE NullReferences(child)
        orph   == IF failing # 0 THEN 0 ELSE Orphaned(child, parent)
        null_issue == ~r.allow_null /\ nulls > 0
    IN  [relationship |-> r.name,
         child_records |-> IF failing = 1 THEN 0 ELSE Len(child),
         orphaned_records |-> orph,
         null_references |-> nulls,
         valid |-> ~null_issue /\ orph = 0 /\ failing = 0,
         issues |-> (IF null_issue THEN << Msg("null_values", nulls, 0) >> ELSE << >>)
                    \o (IF orph > 0 THEN << Msg("orphaned_records", orph, 0) >>
                        ELSE << >>)
                    \o (IF failing # 0 THEN << Msg("validation_error", failing, 0) >>
                        ELSE << >>)]

\* the query that raises for relationship number k, when the relationship of
\* rel is the one whose query raises
FailingAt(rel, k, failing) ==
    IF validator_relationships[k].child_table = relationships[rel.r][1]
       /\ validator_relationships[k].child_column = relationships[rel.r][2]
    THEN failing ELSE 0

RECURSIVE Violations(_, _, _)
\* integrity_results['violations'] after the first n relationships, lines 391-395
Violations(rel, failing, n) ==
    IF n = 0 THEN << >>
    ELSE LET res == RelResult(rel, validator_relationships[n], FailingAt(rel, n, failing))
         IN  IF res.orphaned_records > 0
             THEN Append(Violations(rel, failing, n - 1),
                         [relationship |-> res.relationship,
                          type |-> "orphaned_records",
                          count |-> res.orphaned_records])
             ELSE Violations(rel, failing, n - 1)

\* integrity_results of ComprehensiveValidator.validate_referential_integrity;
\* connected is FALSE when self.engine.connect() raises (lines 409-411)
ValidatorResults(rel, connected, failing) ==
    LET n == Len(validator_relationships)
        details == [name \in { validator_relationships[k].name : k \in 1..n } |->
                      LET k == CHOOSE x \in 1..n : validator_relationships[x].name = name
                      IN  RelResult(rel, validator_relationships[k],
                                    FailingAt(rel, k, failing))]
        passed == Cardinality({ name \in DOMAIN details : details[name].valid })
    IN  IF connected
        THEN [total_checks |-> n,
              passed_checks |-> passed,
              failed_checks |-> n - passed,
              violations |-> Violations(rel, failing, n),
              relationship_details |-> details,
              error |-> FALSE]
        ELSE [total_checks |-> 0,
              passed_checks |-> 0,
              failed_checks |-> 0,
              violations |-> << >>,
              relationship_details |-> << >>,
              error |-> TRUE]

\* EnhancedDataLoader.validate_referential_integrity runs on relation
VerifyEnhanced ==
    /\ relation # << >>
    /\ "enhanced" \notin DOMAIN report
    /\ \E raised \in BOOLEAN, k \in {0, relation.r} :
         report' = ("enhanced" :> IntegrityResults(EnhancedCounts(relation),
                                     IF raised THEN k ELSE Len(relationships), raised))
                   @@ report
    /\ UNCHANGED <<run_log, first_run, loader, pc, i, store, loading_stats, table_stats, df, df_clean,
                   pk_log, batch_num, attempt, h, faults, focus, success_count, stats,
                   loaded_rows, rows_loaded, success, integrity_ok, fk_enforced,
                   verifications, frame, cleaned, relation, args, returned>>

\* ComprehensiveValidator.validate_referential_integrity runs on relation
VerifyComprehensive ==
    /\ relation # << >>
    /\ "comprehensive" \notin DOMAIN report
    /\ \E connected \in BOOLEAN, failing \in 0..3 :
         /\ ~connected => failing = 0
         /\ report' = ("comprehensive" :> ValidatorResults(relation, connected, failing))
                      @@ report
    /\ UNCHANGED <<run_log, first_run, loader, pc, i, store, loading_stats, table_stats, df, df_clean,
                   pk_log, batch_num, attempt, h, faults, focus, success_count, stats,
                   loaded_rows, rows_loaded, success, integrity_ok, fk_enforced,
                   verifications, frame, cleaned, relation, args, returned>>


----------------------------------------------------------------------------
(* Column mapping: clean_dataframe lines 293-296, validate_csv_file lines   *)
(* 273-283, and import_patients of simple_enhanced_loader.py lines 126-177  *)

\* column names a patients csv file may carry
SourceColumns == {"Id", "ID", "FIRST", "first", "EXTRA"}

\* str.upper() on the column names
Upper(c) ==
    CASE c \in {"Id", "ID"}       -> "ID"
      [] c \in {"FIRST", "first"} -> "FIRST"
      [] OTHER                    -> c

\* three entries of column_mappings['patients']
column_mapping == [ID |-> "id", FIRST |-> "first_name", LAST |-> "last_name"]

\* df.rename(columns=column_mapping) on one column name
Rename(c) == IF c \in DOMAIN column_mapping THEN column_mapping[c] ELSE c

\* lines 293-296 of clean_dataframe: the columns of the dataframe written
MapColumns(header, has_mapping) ==
    IF has_mapping THEN { Rename(Upper(c)) : c \in header } ELSE header

\* lines 273-283 of validate_csv_file: the issues found in the columns; the
\* file is valid whatever they are (line 283)
ColumnIssues(header, has_mapping) ==
    LET missing == (DOMAIN column_mapping) \ { Upper(c) : c \in header }
    IN  IF has_mapping /\ missing # {} THEN << missing >> ELSE << >>

\* import_patients, lines 126-177: upper, rename, keep the expected columns
SimpleMapColumns(header) ==
    { Rename(Upper(c)) : c \in header }
        \cap { column_mapping[k] : k \in DOMAIN column_mapping }

\* the headers of a csv file
ColumnArgs ==
    { [fn |-> "columns", header |-> hd, has_mapping |-> m] :
        hd \in (SUBSET SourceColumns) \ {{}}, m \in BOOLEAN }

\* validate_csv_file and clean_dataframe are applied to the header
MapEnhanced ==
    /\ args # << >>
    /\ args.fn = "columns"
    /\ "enhanced" \notin DOMAIN returned
    /\ returned' = ("enhanced" :>
                      [is_valid |-> TRUE,
                       issues |-> ColumnIssues(args.header, args.has_mapping),
                       columns |-> MapColumns(args.header, args.has_mapping)])
                   @@ returned
    /\ UNCHANGED <<run_log, first_run, loader, pc, i, store, loading_stats, table_stats, df, df_clean,
                   pk_log, batch_num, attempt, h, faults, focus, success_count, stats,
                   loaded_rows, rows_loaded, success, integrity_ok, fk_enforced,
                   verifications, frame, cleaned, relation, report, args>>

\* import_patients is applied to the header
MapSimple ==
    /\ args # << >>
    /\ args.fn = "columns"
    /\ args.has_mapping
    /\ "simple" \notin DOMAIN returned
    /\ returned' = ("simple" :> [columns |-> SimpleMapColumns(args.header)])
                   @@ returned
    /\ UNCHANGED <<run_log, first_run, loader, pc, i, store, loading_stats, table_stats, df, df_clean,
                   pk_log, batch_num, attempt, h, faults, focus, success_count, stats,
                   loaded_rows, rows_loaded, success, integrity_ok, fk_enforced,
                   verifications, frame, cleaned, relation, report, args>>

----------------------------------------------------------------------------
(* Batch slicing: load_table_with_retry lines 406-413 and                  *)
(* load_with_batch_processing lines 88-95, for any batch size              *)

\* a count that leaves out the last, shorter batch
NumBatches_floor(n, bs) == n \div bs

\* total_batches of line 407, num_batches of line 89
NumBatches(n, bs) == (n + bs - 1) \div bs

\* df.iloc[a:b] of a dataframe of n rows, the rows being numbered from 1
Iloc(n, a, b) == [j \in 1..(Min(b, n) - Min(a, n)) |-> Min(a, n) + j]

\* the df_batch of each iteration of the loop of line 410 (line 92)
Slices(n, bs) ==
    [k \in 1..NumBatches(n, bs) |-> Iloc(n, (k - 1) * bs, Min(k * bs, n))]

\* dataframes of 1..MaxSliceRows rows and batch sizes 1..MaxBatchSize
SliceArgs ==
    { [fn |-> "batches", n |-> n, batch_size |-> bs] :
        n \in 1..MaxSliceRows, bs \in 1..MaxBatchSize }

\* the loop of load_table_with_retry cuts the cleaned dataframe
SliceEnhanced ==
    /\ args # << >>
    /\ args.fn = "batches"
    /\ "enhanced" \notin DOMAIN returned
    /\ returned' = ("enhanced" :> Slices(args.n, args.batch_size)) @@ returned
    /\ UNCHANGED <<run_log, first_run, loader, pc, i, store, loading_stats, table_stats, df, df_clean,
                   pk_log, batch_num, attempt, h, faults, focus, success_count, stats,
                   loaded_rows, rows_loaded, success, integrity_ok, fk_enforced,
                   verifications, frame, cleaned, relation, report, args>>

\* the loop of load_with_batch_processing cuts the dataframe
SliceSimple ==
    /\ args # << >>
    /\ args.fn = "batches"
    /\ "simple" \notin DOMAIN returned
    /\ returned' = ("simple" :> Slices(args.n, args.batch_size)) @@ returned
    /\ UNCHANGED <<run_log, first_run, loader, pc, i, store, loading_stats, table_stats, df, df_clean,
                   pk_log, batch_num, attempt, h, faults, focus, success_count, stats,
                   loaded_rows, rows_loaded, success, integrity_ok, fk_enforced,
                   verifications, frame, cleaned, relation, report, args>>

----------------------------------------------------------------------------
(* The load order: EnhancedDataLoader.__init__ lines 67-81 and             *)
(* SimpleEnhancedLoader.load_all_data lines 595-604                        *)

\* the foreign keys the code declares, as (child table, parent table)
DeclaredKeys ==
    { <<relationships[k][1], relationships[k][3]>> : k \in 1..Len(relationships) }

\* foreign keys a schema may declare besides, or instead of, some of those:
\* get_table_schema reads them from the store (line 239)
OtherKeys ==
    { <<"organizations", "providers">>, <<"patients", "encounters">>,
      <<"payers", "care_plans">> }

\* the foreign keys of the schema the loaders run against
ForeignKeyArgs ==
    { [fn |-> "order", foreign_keys |-> (DeclaredKeys \ R) \cup X] :
        R \in SUBSET { <<"providers", "organizations">>, <<"encounters", "payers">> },
        X \in SUBSET OtherKeys }

\* self.loading_order is the list of lines 68-81 whatever the schema declares
OrderEnhanced ==
    /\ args # << >>
    /\ args.fn = "order"
    /\ "enhanced" \notin DOMAIN returned
    /\ returned' = ("enhanced" :> [order |-> loading_order, error |-> "none"])
                   @@ returned
    /\ UNCHANGED <<run_log, first_run, loader, pc, i, store, loading_stats, table_stats, df, df_clean,
                   pk_log, batch_num, attempt, h, faults, focus, success_count, stats,
                   loaded_rows, rows_loaded, success, integrity_ok, fk_enforced,
                   verifications, frame, cleaned, relation, report, args>>

\* loading_functions is the list of lines 596-604 whatever the schema declares
OrderSimple ==
    /\ args # << >>
    /\ args.fn = "order"
    /\ "simple" \notin DOMAIN returned
    /\ returned' = ("simple" :> [order |-> loading_functions, error |-> "none"])
                   @@ returned
    /\ UNCHANGED <<run_log, first_run, loader, pc, i, store, loading_stats, table_stats, df, df_clean,
                   pk_log, batch_num, attempt, h, faults, focus, success_count, stats,
                   loaded_rows, rows_loaded, success, integrity_ok, fk_enforced,
                   verifications, frame, cleaned, relation, report, args>>

\* the functions above applied to every input of the bounds
FunctionsInit ==
    /\ loader = "functions"
    /\ pc = "start"
    /\ success_count = 0
    /\ i = 1
    /\ store = [t \in Tables |-> InitRows]
    /\ loading_stats = [tables_processed |-> 0, total_rows_loaded |-> 0,
                        errors |-> <<>>, warnings |-> <<>>,
                        table_stats |-> <<>>, integrity_check |-> <<>>,
                        success |-> FALSE]
    /\ table_stats = NoStats
    /\ df = NoDf
    /\ df_clean = NoDf
    /\ pk_log = <<>>
    /\ batch_num = 0
    /\ attempt = 0
    /\ h = NoHistory
    /\ faults = 0
    /\ fk_enforced = FALSE
    /\ focus = ""
    /\ integrity_ok = << >>
    /\ verifications = 0
    /\ stats = [tables_loaded |-> 0, total_rows |-> 0, errors |-> <<>>,
                warnings |-> <<>>]
    /\ loaded_rows = 0
    /\ rows_loaded = <<0>>
    /\ success = "none"
    /\ cleaned = << >>
    /\ report = << >>
    /\ returned = << >>
    /\ run_log = [on |-> FALSE, tables |-> << >>]
    /\ first_run = << >>
    /\ \/ frame \in Frames /\ relation = << >> /\ args = << >>
       \/ frame = << >> /\ relation \in Relations /\ args = << >>
       \/ frame = << >> /\ relation = << >> /\ args \in ColumnArgs
       \/ frame = << >> /\ relation = << >> /\ args \in SliceArgs
       \/ frame = << >> /\ relation = << >> /\ args \in ForeignKeyArgs

FunctionsNext ==
    \/ Clean
    \/ VerifyEnhanced
    \/ VerifyComprehensive
    \/ MapEnhanced
    \/ MapSimple
    \/ SliceEnhanced
    \/ SliceSimple
    \/ OrderEnhanced
    \/ OrderSimple

FunctionsSpec == FunctionsInit /\ [][FunctionsNext]_vars

----------------------------------------------------------------------------
(* Properties *)

Range(s) == { s[k] : k \in DOMAIN s }

\* a load_table_with_retry call is in progress for table_name
InLoad == loader = "enhanced" /\ pc \in {"load", "truncate", "batches", "verify"}

\* load_table_with_retry has returned and the loop has not moved on yet
Returned == loader = "enhanced" /\ pc = "loop" /\ table_stats.table_name # ""

\* the loop of load_all_tables is past table p: p was loaded or found missing
Passed(p) ==
    \E k \in 1..(i - 1) :
        /\ loading_order[k] = p
        /\ \/ p \in DOMAIN loading_stats.table_stats
           \/ Msg("csv_not_found", k, 0) \in Range(loading_stats.warnings)

Parents(t) ==
    { relationships[k][3] : k \in { j \in 1..Len(relationships) : relationships[j][1] = t } }

\* rows of batch b (1-based) of a dataframe of n rows
BatchRows(b, n) == end_idx(b - 1, n) - start_idx(b - 1)

RECURSIVE SumRows(_, _)
SumRows(B, n) ==
    IF B = {} THEN 0
    ELSE LET b == CHOOSE x \in B : TRUE IN BatchRows(b, n) + SumRows(B \ {b}, n)

\* the batches of the load_table_with_retry call in progress or just returned
Batches == IF loader = "enhanced" THEN DOMAIN h.result ELSE {}

BatchesWith(res) == { b \in Batches : h.result[b] = res }

\* "Failed to load batch b after max_retries attempts" entries of table_stats
ErrorsFor(b) ==
    Cardinality({ k \in DOMAIN table_stats.errors :
                    table_stats.errors[k].kind = "batch_failed"
                    /\ table_stats.errors[k].a = b })

\* C1: while a table is being loaded (cleaned, truncated, written, counted),
\* the loop of load_all_tables is past every parent table the relationships
\* give it: the parent precedes the child in loading_order and its own pass
\* (load or skip) is over.
C1_ParentsBeforeChildren ==
    InLoad => \A p \in Parents(table_name) : Passed(p)

C1_Witness ==
    /\ pc = "verify"
    /\ table_name = "encounters"
    /\ "patients" \in DOMAIN loading_stats.table_stats
    /\ loading_stats.table_stats["patients"].rows_loaded > 0

\* C2: no batch is given more than max_retries + 1 write attempts, whatever
\* writes fail.
C2_AttemptsBounded ==
    \A b \in Batches : h.attempts[b] <= max_retries + 1

C2_Witness ==
    \E b \in Batches : h.result[b] = "failed" /\ h.failures[b] = h.attempts[b]
                       /\ h.attempts[b] > 1

\* C3 as claimed: a batch is declared failed only after 1 + max_retries write
\* attempts.
C3_FailedAfterOnePlusMaxRetries ==
    \A b \in Batches : h.result[b] = "failed" => h.attempts[b] = 1 + max_retries

\* C3 amended: a batch is declared failed after exactly max_retries write
\* attempts, all failed (the first and max_retries - 1 retries), never
\* earlier; after a failed attempt numbered below max_retries the batch is
\* retried.
C3_FailedAfterMaxRetries ==
    /\ \A b \in Batches :
         h.result[b] = "failed" =>
            h.attempts[b] = max_retries /\ h.failures[b] = max_retries
    /\ \A b \in Batches :
         h.failures[b] > 0 /\ h.failures[b] < max_retries /\ h.attempts[b] = h.failures[b]
            => h.result[b] = "retrying" /\ pc = "batches" /\ batch_num + 1 = b

C3_Witness ==
    \E b \in Batches : h.result[b] = "failed" /\ h.attempts[b] = max_retries

\* C4: a batch whose write fails on its first k attempts, k < max_retries,
\* and succeeds on attempt k + 1 has had exactly k + 1 write attempts, is
\* counted as processed with all its rows added to rows_loaded, and has no
\* error recorded.
C4_RetriedBatchCounts ==
    (pc \in {"batches", "verify"}) =>
        /\ \A b \in BatchesWith("succeeded") :
             /\ h.failures[b] < max_retries
             /\ h.attempts[b] = h.failures[b] + 1
             /\ ErrorsFor(b) = 0
        /\ table_stats.rows_loaded = SumRows(BatchesWith("succeeded"), df_clean.rows)
        /\ table_stats.batches_processed = Cardinality(BatchesWith("succeeded"))

C4_Witness ==
    /\ pc \in {"batches", "verify"}
    /\ \E b \in BatchesWith("succeeded") :
         h.failures[b] = 2 /\ h.attempts[b] = 3 /\ table_stats.rows_loaded > 0

\* the batches of the load_with_batch_processing call in progress or just
\* returned
SimpleBatches == IF loader = "simple" THEN DOMAIN h.result ELSE {}

SimpleBatchesWith(res) == { b \in SimpleBatches : h.result[b] = res }

\* "<table> batch b: ..." entries of self.stats['errors']
SimpleErrorsFor(b) ==
    Cardinality({ k \in DOMAIN stats.errors :
                    stats.errors[k] = Msg("batch_error", i, b) })

\* C5: a batch that exhausts its retries has exactly one error recorded in
\* table_stats.errors, adds none of its rows to rows_loaded, and does not stop
\* the load: when the batches are over every batch has been attempted.  The
\* same holds of a batch whose single write attempt fails in
\* load_with_batch_processing, with self.stats['errors'] and loaded_rows.
C5_ExhaustedBatchRecordedOnce ==
    /\ (pc \in {"batches", "verify"}) =>
        /\ \A b \in Batches :
             ErrorsFor(b) = (IF h.result[b] = "failed" THEN 1 ELSE 0)
        /\ table_stats.rows_loaded + SumRows(BatchesWith("failed"), df_clean.rows)
             <= df_clean.rows
        /\ \A b \in BatchesWith("failed") : \A c \in Batches :
             c > b /\ c <= batch_num => h.attempts[c] > 0
        /\ pc = "verify" => \A b \in Batches :
             h.attempts[b] > 0 /\ h.result[b] \in {"succeeded", "failed"}
    /\ (pc \in {"batches", "returned"}) =>
        /\ \A b \in SimpleBatches :
             SimpleErrorsFor(b) = (IF h.result[b] = "failed" THEN 1 ELSE 0)
        /\ SimpleBatches # {} =>
             loaded_rows = SumRows(SimpleBatchesWith("succeeded"), df.rows)
        /\ pc = "returned" => \A b \in SimpleBatches :
             h.attempts[b] = 1 /\ h.result[b] \in {"succeeded", "failed"}

C5_Witness ==
    /\ pc = "verify"
    /\ \E b, c \in Batches :
         b < c /\ h.result[b] = "failed" /\ h.result[c] = "succeeded"

\* C6: once a batch has succeeded or has been declared failed it gets no
\* further write attempt and keeps its outcome; a batch is retried only from
\* a failed attempt numbered at most max_retries.
C6_TerminalOutcomes ==
    [][ /\ \A b \in Batches \cap DOMAIN h'.result :
             h.result[b] \in {"succeeded", "failed"} =>
                 /\ h'.attempts[b] = h.attempts[b]
                 /\ h'.result[b] = h.result[b]
        /\ \A b \in DOMAIN h'.result :
             h'.result[b] = "retrying" =>
                 /\ h'.failures[b] = h'.attempts[b]
                 /\ h'.attempts[b] <= max_retries ]_vars

C6_Witness ==
    /\ loader = "enhanced"
    /\ pc = "batches"
    /\ batch_num = 1
    /\ h.result[1] = "succeeded"
    /\ h.result[2] = "retrying"

\* an import_* call of load_all_data is truncating or writing simple_table
SimpleInLoad == loader = "simple" /\ pc \in {"truncate", "batches"}

\* C7: the truncate of the relation is done before the first write attempt of
\* the table's load, and the relation is not truncated again once a write
\* attempt has been made.
C7_TruncateBeforeWrites ==
    [][ /\ (InLoad /\ \E b \in Batches : h'.attempts[b] > h.attempts[b])
              => h.truncated = "done" /\ h'.truncated = "done"
        /\ (InLoad /\ (h'.truncated # h.truncated
                       \/ store'[table_name] < store[table_name]))
              => \A b \in Batches : h.attempts[b] = 0
        /\ (SimpleInLoad /\ \E b \in SimpleBatches : h'.attempts[b] > h.attempts[b])
              => h.truncated = "done" /\ h'.truncated = "done"
        /\ (SimpleInLoad /\ (h'.truncated # h.truncated
                             \/ store'[simple_table] < store[simple_table]))
              => \A b \in SimpleBatches : h.attempts[b] = 0 ]_vars

C7_Witness ==
    /\ pc = "verify"
    /\ h.truncated = "done"
    /\ Cardinality(BatchesWith("succeeded")) = 2
    /\ store[table_name] = df_clean.rows

\* C8: when the truncate of a table fails, no write attempt is made for the
\* table, so nothing is written to the relation that was not truncated, and
\* the load of the table is reported as failed.
C8_FailedTruncateStopsLoad ==
    h.truncated = "failed" =>
        /\ \A b \in DOMAIN h.attempts : h.attempts[b] = 0
        /\ loader = "enhanced" =>
              /\ Msg("unexpected_error", truncate, 0) \in Range(table_stats.errors)
              /\ ~table_stats.success
              /\ table_stats.rows_loaded = 0

\* C9: when the rows have been counted after the last batch, rows_loaded is
\* the count read from the relation; a count that differs from the sum of the
\* batches written is reported by a row-count-mismatch warning carrying both
\* numbers, and a count that agrees adds no warning.
C9_CountIsReported ==
    (Returned /\ h.counted) =>
        LET t == table_stats.table_name
            written == SumRows(BatchesWith("succeeded"), df_clean.rows)
        IN  /\ table_stats.rows_loaded = store[t]
            /\ loading_stats.table_stats[t].rows_loaded = store[t]
            /\ (store[t] # written) <=>
                  (Msg("row_count_mismatch", written, store[t])
                      \in Range(table_stats.warnings))
            /\ (store[t] = written) => table_stats.warnings = <<>>

C9_Witness ==
    /\ Returned
    /\ h.counted
    /\ store[table_stats.table_name] # SumRows(BatchesWith("succeeded"), df_clean.rows)
    /\ Cardinality(BatchesWith("succeeded")) > 0

\* the load has cleaned the dataframe of the table
Cleaned == loader = "enhanced" /\ df.rows > 0

RECURSIVE SumDropped(_)
SumDropped(log) ==
    IF log = <<>> THEN 0 ELSE Head(log).a + SumDropped(Tail(log))

Ended == loader \in {"enhanced", "simple"} /\ pc \in {"done", "crashed"}

\* the run got past its connection test and into the loop over the tables
EnteredLoop == ~(loader = "enhanced" /\ i = 1)

\* the loop over the tables is over: every table had its pass
LoopOver ==
    i > (IF loader = "enhanced" THEN Len(loading_order) ELSE Len(loading_functions))

\* C15: the integrity verification is executed at most once, only when the
\* loop over the tables is over, whatever errors the tables recorded; a run
\* that entered the loop does not end without having executed it; and no step
\* changes a relation once the verification has started.
C15_VerifiedOnceAfterLoads ==
    /\ [](verifications <= 1)
    /\ [](verifications = 1 => LoopOver)
    /\ []((Ended /\ EnteredLoop) => verifications = 1)
    /\ [][verifications >= 1 => store' = store]_vars

\* t is the end of s
Suffix(s, t) ==
    Len(t) <= Len(s) /\ SubSeq(s, Len(s) - Len(t) + 1, Len(s)) = t

\* the loop of load_all_tables gave loading_order[k] its pass: the table has
\* its stats entry, or its csv file was not found
PassedAt(k) ==
    \/ loading_order[k] \in DOMAIN loading_stats.table_stats
    \/ Msg("csv_not_found", k, 0) \in Range(loading_stats.warnings)

FatalRecorded ==
    \E k \in DOMAIN loading_stats.errors :
        \/ loading_stats.errors[k] = Msg("unexpected_error", truncate, 0)
        \/ loading_stats.errors[k] = Msg("unexpected_error", read_csv, 0)
        \/ loading_stats.errors[k].kind = "csv_validation_error"

\* C17: once a fatal error is recorded in the run's errors, no step of the
\* run truncates or writes a relation: the tables later in the load order
\* are not loaded and the rows of the tables already loaded stay.
C17_FatalErrorAbortsRun ==
    [][ (loader = "enhanced" /\ FatalRecorded) => store' = store ]_vars

\* C18: a run whose connection test fails loads nothing and verifies nothing;
\* and when the schema of a table could not be introspected, the table is
\* neither truncated nor written.
C18_NoLoadWithoutSchema ==
    loader = "enhanced" =>
        /\ (pc = "done" /\ ~EnteredLoop) =>
              /\ store = [t \in Tables |-> InitRows]
              /\ loading_stats.tables_processed = 0
              /\ verifications = 0
        /\ h.schema = "failed" =>
              /\ h.truncated # "done"
              /\ \A b \in Batches : h.attempts[b] = 0

\* validate_referential_integrity of load_all_tables has returned without
\* raising
Verified ==
    /\ loader = "enhanced"
    /\ pc \in {"report", "done"}
    /\ verifications = 1
    /\ ~loading_stats.integrity_check.error

RECURSIVE SumErrors(_)
SumErrors(T) ==
    IF T = {} THEN 0
    ELSE LET t == CHOOSE x \in T : TRUE
         IN  Len(loading_stats.table_stats[t].errors) + SumErrors(T \ {t})

\* C19: when the verification finds orphaned rows for a relationship, its
\* result holds a record naming the relationship with the count found, the
\* run's errors are those of the tables and nothing more, and the run ends
\* with its report, successful if no table recorded an error.
C19_ViolationsDoNotFailTheRun ==
    Verified =>
        /\ \A k \in DOMAIN h.orphans :
             h.orphans[k] > 0 =>
                \E d \in Range(loading_stats.integrity_check.details) :
                    /\ d.child_table = relationships[k][1]
                    /\ d.child_column = relationships[k][2]
                    /\ d.parent_table = relationships[k][3]
                    /\ d.orphaned_records = h.orphans[k]
        /\ loading_stats.integrity_check.violations_found
              = ViolationsFound(h.orphans, Len(relationships))
        /\ Len(loading_stats.errors) = SumErrors(DOMAIN loading_stats.table_stats)
        /\ pc = "done" => loading_stats.success = (Len(loading_stats.errors) = 0)

C19_Witness ==
    /\ Verified
    /\ pc = "done"
    /\ h.orphans[4] = 2
    /\ Len(loading_stats.integrity_check.details) = 1
    /\ loading_stats.integrity_check.details[1].child_table = "encounters"
    /\ loading_stats.integrity_check.details[1].child_column = "provider_id"
    /\ loading_stats.integrity_check.details[1].orphaned_records = 2
    /\ loading_stats.errors = << >>
    /\ loading_stats.success

\* load_all_tables returned True, or load_all_data returned True
ReportedClean ==
    \/ loader = "enhanced" /\ pc = "done" /\ loading_stats.success
    \/ loader = "simple" /\ pc = "done" /\ success

\* C20: a run is reported clean only when no table recorded an error and the
\* verification found no violation in any relationship.
C20_CleanOnlyWithoutErrorsAndViolations ==
    ReportedClean =>
        IF loader = "enhanced"
        THEN /\ \A t \in DOMAIN loading_stats.table_stats :
                   loading_stats.table_stats[t].errors = << >>
             /\ loading_stats.integrity_check.violations_found = 0
             /\ loading_stats.integrity_check.details = << >>
        ELSE /\ stats.errors = << >>
             /\ integrity_ok = << TRUE >>

----------------------------------------------------------------------------
(* Properties of clean_dataframe and of the verifications, FunctionsSpec *)

\* the cell of column c in row k of frame cannot be coerced to the type the
\* schema declares for c
CoercionFails(k, c) ==
    /\ frame.schema_ok
    /\ Branch(frame.types[c]) # "none"
    /\ frame.rows[k][c] = "bad_text"

\* the rows of the cleaned dataframe that come from row k of frame
CleanedRow(k) == { x \in Range(cleaned.rows) : x.n = k }

\* row k of frame has a null key once its key column is converted
KeyEndsNull(k) ==
    /\ frame.schema_ok
    /\ ConvertColumn([j \in DOMAIN frame.rows |-> frame.rows[j].id], frame.types.id)[k]
          = "null"

\* clean_dataframe returned and kept row k unless its key ended null
RowKept(k) == CleanedRow(k) = {} <=> KeyEndsNull(k)

\* C11: a cell that cannot be coerced to the declared type is null in the
\* cleaned dataframe, a coercion warning stands in the table's warnings, and
\* its row is kept unless its primary key ended null.
C11_CoercionFailureNullsAndWarns ==
    cleaned # << >> =>
        \A k \in DOMAIN frame.rows : \A c \in {"id", "v"} :
            CoercionFails(k, c) =>
                /\ RowKept(k)
                /\ \A x \in CleanedRow(k) : x[c] = "null"
                /\ \E w \in Range(table_stats.warnings) : w.kind = "type_coercion_failure"

\* the relationships declared, as (child table, child column)
Declared == { <<relationships[k][1], relationships[k][2]>> : k \in 1..Len(relationships) }

EnhancedDone == "enhanced" \in DOMAIN report /\ ~report.enhanced.error

ComprehensiveDone == "comprehensive" \in DOMAIN report /\ ~report.comprehensive.error

\* C12: a verification that did not raise returns exactly one record per
\* declared relationship, clean relationships included.
C12_OneRecordPerRelationship ==
    /\ EnhancedDone =>
          /\ Len(report.enhanced.details) = Len(relationships)
          /\ { <<d.child_table, d.child_column>> : d \in Range(report.enhanced.details) }
                = Declared
    /\ ComprehensiveDone =>
          DOMAIN report.comprehensive.relationship_details
             = { validator_relationships[k].name : k \in 1..Len(validator_relationships) }

\* the child rows whose key is not null and is the key of no parent row
AntiJoinCount(child, parent) ==
    Cardinality({ c \in DOMAIN child :
                     child[c] # NULL /\ \A p \in DOMAIN parent : parent[p] # child[c] })

\* orphaned_records EnhancedDataLoader reports for relationship k: the count
\* of its details record, and 0 when it has none
EnhancedReported(k) ==
    LET ds == { d \in Range(report.enhanced.details) :
                  d.child_table = relationships[k][1]
                  /\ d.child_column = relationships[k][2] }
    IN  IF ds = {} THEN 0 ELSE (CHOOSE d \in ds : TRUE).orphaned_records

\* the three queries of relationship r ran in ComprehensiveValidator
Queried(r) ==
    \A m \in Range(report.comprehensive.relationship_details[r.name].issues) :
        m.kind # "validation_error"

\* C13: for every relationship and every content of its two relations, the
\* orphaned count reported equals the number of child rows with a non-null
\* key that no parent row holds; a child row counts once, a null key never.
C13_OrphanedIsAntiJoinCount ==
    /\ EnhancedDone =>
          \A k \in 1..Len(relationships) :
             LET child == ChildColumn(relation, relationships[k][1], relationships[k][2])
                 parent == ParentColumn(relation, relationships[k][1],
                                        relationships[k][2], relationships[k][3])
             IN  /\ EnhancedReported(k) = AntiJoinCount(child, parent)
                 /\ EnhancedReported(k) <= Len(child) - NullReferences(child)
    /\ ComprehensiveDone =>
          \A k \in 1..Len(validator_relationships) :
             LET r == validator_relationships[k]
                 child == ChildColumn(relation, r.child_table, r.child_column)
                 parent == ParentColumn(relation, r.child_table, r.child_column,
                                        r.parent_table)
                 res == report.comprehensive.relationship_details[r.name]
             IN  Queried(r) =>
                    /\ res.orphaned_records = AntiJoinCount(child, parent)
                    /\ res.orphaned_records <= Len(child) - NullReferences(child)

C13_Witness ==
    /\ relation # << >>
    /\ relation.r = 4
    /\ relation.child = << NULL, 2 >>
    /\ relation.parent = << 1, 1 >>
    /\ EnhancedDone
    /\ ComprehensiveDone
    /\ EnhancedReported(4) = 1
    /\ report.comprehensive.relationship_details["encounters_provider"].orphaned_records = 1

\* relationship number k of EnhancedDataLoader is reported as violated
EnhancedViolated(k) ==
    \E d \in Range(report.enhanced.details) :
        d.child_table = relationships[k][1] /\ d.child_column = relationships[k][2]

\* C14: for a foreign key declared non-nullable the verification reports the
\* number of child rows with a null key and marks the relationship violated
\* when there is one; for a nullable key, null values are no violation.
C14_NullKeysOfNonNullableRelationships ==
    /\ ComprehensiveDone =>
          \A k \in 1..Len(validator_relationships) :
             LET r == validator_relationships[k]
                 child == ChildColumn(relation, r.child_table, r.child_column)
                 res == report.comprehensive.relationship_details[r.name]
             IN  Queried(r) =>
                    IF r.allow_null
                    THEN res.valid <=> res.orphaned_records = 0
                    ELSE /\ res.null_references = NullReferences(child)
                         /\ res.null_references > 0 => ~res.valid
    /\ EnhancedDone =>
          \A k \in 1..Len(validator_relationships) :
             LET r == validator_relationships[k]
                 child == ChildColumn(relation, r.child_table, r.child_column)
                 e == CHOOSE x \in 1..Len(relationships) :
                         relationships[x][1] = r.child_table
                         /\ relationships[x][2] = r.child_column
             IN  IF r.allow_null
                 THEN EnhancedViolated(e) <=> EnhancedReported(e) > 0
                 ELSE NullReferences(child) > 0 => EnhancedViolated(e)

----------------------------------------------------------------------------
(* Properties of the runs, continued *)

\* C30: every import of SimpleEnhancedLoader returns a row count, so that
\* load_all_data never stops at an import: after any import it goes on to the
\* next one, the integrity validation and the summary.
C30_SimpleImportsReturnACount ==
    loader = "simple" => (rows_loaded # None /\ pc # "crashed")

\* C27: when load_table_with_retry returns stats with success = True, the
\* rows_loaded it reports is the number of rows the table's relation holds.
C27_SuccessReportsStoredRows ==
    (Returned /\ table_stats.success) =>
        table_stats.rows_loaded = store[table_stats.table_name]

\* C26: no batch given to the store holds a row whose primary key is null,
\* whatever get_table_schema returned.
C26_NoNullKeyInABatch ==
    (loader = "enhanced" /\ \E b \in Batches : h.attempts[b] > 0) =>
        df_clean.null_pk = 0

\* C23: a csv file with a header and no data rows gives a stats entry with
\* zero rows read and loaded, a warning and no error, and success.
C23_HeaderOnlyFileIsAWarning ==
    (Returned /\ h.csv = "csv_no_data_rows") =>
        /\ table_stats.total_rows_in_csv = 0
        /\ table_stats.rows_loaded = 0
        /\ table_stats.errors = << >>
        /\ table_stats.warnings # << >>
        /\ table_stats.success

\* the tables whose csv file was not found by the loop of load_all_tables
Skipped ==
    { loading_order[k] :
        k \in { j \in 1..Len(loading_order) :
                  Msg("csv_not_found", j, 0) \in Range(loading_stats.warnings) } }

\* the tables load_table_with_retry returned stats for
Processed == DOMAIN loading_stats.table_stats

\* C29: a table whose csv file is not found gets a warning and no stats
\* entry, is not counted as processed, and its relation keeps the rows it
\* held before the run.
C29_SkippedTableLeftUnchanged ==
    loader = "enhanced" =>
        /\ \A k \in 1..(i - 1) :
              loading_order[k] \in Skipped \/ loading_order[k] \in Processed
        /\ Skipped \cap Processed = {}
        /\ loading_stats.tables_processed = Cardinality(Processed)
        /\ \A t \in Skipped : store[t] = InitRows

RECURSIVE SumStore(_)
SumStore(T) ==
    IF T = {} THEN 0
    ELSE LET t == CHOOSE x \in T : TRUE IN store[t] + SumStore(T \ {t})

\* the tables whose load truncated the relation, wrote it and reported success
LoadedTables ==
    { t \in Processed : /\ loading_stats.table_stats[t].success
                        /\ loading_stats.table_stats[t].batches_processed > 0 }

\* C28: no step of the run removes rows of a relation whose table was loaded
\* earlier in the run, and at the end each loaded table's relation holds the
\* rows_loaded reported for it, total_rows_loaded being the sum of these
\* counts when every table processed succeeded.
C28_TruncateSparesLoadedTables ==
    /\ [][loader = "enhanced" => \A t \in Processed : store'[t] = store[t]]_vars
    /\ []((loader = "enhanced" /\ pc = "done") =>
            /\ \A t \in LoadedTables :
                  loading_stats.table_stats[t].rows_loaded = store[t]
            /\ (\A t \in Processed : loading_stats.table_stats[t].success) =>
                  loading_stats.total_rows_loaded = SumStore(LoadedTables))

C28_Witness ==
    /\ loader = "enhanced"
    /\ pc = "done"
    /\ fk_enforced
    /\ LoadedTables = {"organizations", "providers"}
    /\ store["organizations"] > 0
    /\ store["encounters"] = 0
    /\ loading_stats.total_rows_loaded = store["organizations"] + store["providers"]

\* the target fields the mapping names
TargetFields == { column_mapping[k] : k \in DOMAIN column_mapping }

\* C24: the columns written are target fields of the mapping only: a source
\* column is matched to a mapping key whatever its case and renamed, a source
\* column without mapping entry is dropped, and a mapping key missing from
\* the source does not fail the load.
C24_OnlyMappedColumnsAreWritten ==
    (args # << >> /\ args.fn = "columns" /\ args.has_mapping) =>
        \A l \in DOMAIN returned :
            /\ returned[l].columns \subseteq TargetFields
            /\ \A c \in args.header :
                  Upper(c) \in DOMAIN column_mapping =>
                     column_mapping[Upper(c)] \in returned[l].columns
            /\ l = "enhanced" => returned[l].is_valid

\* the least q with q * b >= n
Ceil(n, b) == CHOOSE q \in 0..n : q * b >= n /\ (q = 0 \/ (q - 1) * b < n)

RECURSIVE Flatten(_)
Flatten(ss) == IF ss = << >> THEN << >> ELSE Head(ss) \o Flatten(Tail(ss))

\* C25: the batches of n >= 1 rows with batch size b are ceil(n/b) in
\* number, all of b rows except the last, which has 1 to b rows, and put end
\* to end they are the rows in order, each exactly once.
C25_BatchesPartitionTheRows ==
    (args # << >> /\ args.fn = "batches") =>
        \A l \in DOMAIN returned :
            LET bt == returned[l]
                n  == args.n
                b  == args.batch_size
            IN  /\ Len(bt) = Ceil(n, b)
                /\ \A k \in 1..(Len(bt) - 1) : Len(bt[k]) = b
                /\ Len(bt[Len(bt)]) >= 1
                /\ Len(bt[Len(bt)]) <= b
                /\ Flatten(bt) = [j \in 1..n |-> j]

C25_Witness ==
    /\ args # << >>
    /\ args.fn = "batches"
    /\ args.n = 5
    /\ args.batch_size = 2
    /\ DOMAIN returned = {"enhanced", "simple"}
    /\ returned["enhanced"] = << <<1, 2>>, <<3, 4>>, <<5>> >>
    /\ returned["simple"] = returned["enhanced"]

RECURSIVE Ancestors(_, _, _)
\* the tables reached from the tables S along the foreign keys G in at most
\* n steps
Ancestors(G, S, n) ==
    IF n = 0 THEN S
    ELSE Ancestors(G, S \cup { e[2] : e \in { x \in G : x[1] \in S } }, n - 1)

\* some table of G references itself through a chain of foreign keys
Cyclic(G) ==
    \E e \in G : e[1] \in Ancestors(G, {e[2]}, Cardinality(G))

\* position of table t in the sequence o, 0 when absent
Position(o, t) ==
    IF \E k \in DOMAIN o : o[k] = t THEN CHOOSE k \in DOMAIN o : o[k] = t ELSE 0

\* o places the parent of every foreign key of G before its child
ParentsFirst(o, G) ==
    \A e \in G :
        (Position(o, e[1]) > 0 /\ Position(o, e[2]) > 0) =>
            Position(o, e[2]) < Position(o, e[1])

----------------------------------------------------------------------------
(* main() run twice in a row: each run constructs an EnhancedDataLoader     *)
(* (lines 33-64) and calls load_all_tables; the store is what the first run *)
(* left                                                                     *)

\* the csv files the loop of a run did not find
NotFoundIn(ls) ==
    { k \in 1..Len(loading_order) : Msg("csv_not_found", k, 0) \in Range(ls.warnings) }

\* the second run begins: a new loader object, the same store
Restart ==
    /\ loader = "enhanced"
    /\ pc = "done"
    /\ run_log.on
    /\ first_run = << >>
    /\ first_run' = [connected |-> i > 1,
                      not_found |-> NotFoundIn(loading_stats),
                      table_stats |-> loading_stats.table_stats]
    /\ pc' = "start"
    /\ i' = 1
    /\ loading_stats' = [tables_processed |-> 0, total_rows_loaded |-> 0,
                         errors |-> <<>>, warnings |-> <<>>,
                         table_stats |-> <<>>, integrity_check |-> <<>>,
                         success |-> FALSE]
    /\ table_stats' = NoStats
    /\ df' = NoDf
    /\ df_clean' = NoDf
    /\ pk_log' = <<>>
    /\ batch_num' = 0
    /\ attempt' = 0
    /\ h' = NoHistory
    /\ faults' = 0
    /\ focus' = IF fk_enforced THEN "" ELSE "store"
    /\ verifications' = 0
    /\ UNCHANGED <<loader, store, success_count, stats, loaded_rows, rows_loaded,
                   success, integrity_ok, fk_enforced, frame, cleaned, relation,
                   report, args, returned, run_log>>

\* the load in progress has met, so far, the source and the store behaviour
\* that the first run logged as L
SameSoFar(L) ==
    /\ df \in {NoDf, L.df}
    /\ df_clean \in {NoDf, L.df_clean}
    /\ h.csv \in {"read", L.h.csv}
    /\ h.schema \in {"none", L.h.schema}
    /\ h.truncated \in {"no", L.h.truncated}
    /\ h.external => L.h.external
    /\ h.counted => L.h.counted
    /\ DOMAIN h.attempts \subseteq DOMAIN L.h.attempts
    /\ \A b \in DOMAIN h.attempts :
         /\ h.attempts[b] <= L.h.attempts[b]
         /\ h.failures[b] <= L.h.failures[b]
         /\ h.result[b] \in {"pending", "retrying", L.h.result[b]}
         /\ h.result[b] \in {"succeeded", "failed"} =>
               h.attempts[b] = L.h.attempts[b]

\* the load that returned met the source and the store behaviour logged as L
SameLoad(L) == h = L.h /\ df = L.df /\ df_clean = L.df_clean

\* the second run meets the same sources and the same store behaviour as
\* the first: the connection, the csv files found, their contents, and the
\* outcome of every statement sent to the store
SameSourcesAndStore ==
    first_run # << >> =>
        /\ pc = "done" => first_run.connected = (i > 1)
        /\ pc # "start" /\ ~first_run.connected => pc = "done"
        /\ NotFoundIn(loading_stats) \subseteq first_run.not_found
        /\ DOMAIN loading_stats.table_stats \subseteq DOMAIN first_run.table_stats
        /\ pc \in {"load", "truncate", "batches", "verify"} =>
              /\ table_name \in DOMAIN run_log.tables
              /\ SameSoFar(run_log.tables[table_name])
        /\ (pc = "loop" /\ table_stats.table_name # "") =>
              SameLoad(run_log.tables[table_stats.table_name])

\* when load_all_tables is run twice, only the first MaxTwiceTables tables
\* of loading_order may have a csv file
MaxTwiceTables == 4

\* and each run meets at most MaxTwiceFaults environment faults
MaxTwiceFaults == 1

Bounded ==
    /\ faults <= MaxTwiceFaults
    /\ pc = "load" => i <= MaxTwiceTables

\* load_all_tables over relations that are empty or not, with the log
\* of the first run kept
TwiceInit ==
    /\ loader = "enhanced"
    /\ pc = "start"
    /\ success_count = 0
    /\ i = 1
    /\ \E n \in {0, InitRows} : store = [t \in Tables |-> n]
    /\ loading_stats = [tables_processed |-> 0, total_rows_loaded |-> 0,
                        errors |-> <<>>, warnings |-> <<>>,
                        table_stats |-> <<>>, integrity_check |-> <<>>,
                        success |-> FALSE]
    /\ table_stats = NoStats
    /\ df = NoDf
    /\ df_clean = NoDf
    /\ pk_log = <<>>
    /\ batch_num = 0
    /\ attempt = 0
    /\ h = NoHistory
    /\ faults = 0
    /\ fk_enforced \in BOOLEAN
    /\ focus = IF fk_enforced THEN "" ELSE "store"
    /\ integrity_ok = << >>
    /\ verifications = 0
    /\ stats = [tables_loaded |-> 0, total_rows |-> 0, errors |-> <<>>,
                warnings |-> <<>>]
    /\ loaded_rows = 0
    /\ rows_loaded = <<0>>
    /\ success = "none"
    /\ frame = << >>
    /\ cleaned = << >>
    /\ relation = << >>
    /\ report = << >>
    /\ args = << >>
    /\ returned = << >>
    /\ run_log = [on |-> TRUE, tables |-> << >>]
    /\ first_run = << >>

TwiceNext ==
    \/ Start /\ SameSourcesAndStore' /\ Bounded'
    \/ SkipTables /\ SameSourcesAndStore' /\ Bounded'
    \/ RejectCsv /\ SameSourcesAndStore' /\ Bounded'
    \/ ReadAndClean /\ SameSourcesAndStore' /\ Bounded'
    \/ ReadFailed /\ SameSourcesAndStore' /\ Bounded'
    \/ Truncate /\ SameSourcesAndStore' /\ Bounded'
    \/ BatchLoaded /\ SameSourcesAndStore' /\ Bounded'
    \/ BatchFailed /\ SameSourcesAndStore' /\ Bounded'
    \/ ExternalInsert /\ SameSourcesAndStore' /\ Bounded'
    \/ Verify /\ SameSourcesAndStore' /\ Bounded'
    \/ ValidateIntegrity
    \/ Report
    \/ Restart

TwiceSpec == TwiceInit /\ [][TwiceNext]_vars

\* both runs are over
RanTwice == loader = "enhanced" /\ first_run # << >> /\ pc = "done"

\* C21: when the pipeline has run twice in a row against the same sources
\* and with the same store behaviour, the second run has a stats entry for
\* the same tables as the first, and reports for each of them the
\* rows_loaded the first run reported, whatever the relations held before
\* the first run.
C21_SecondRunLoadsTheSameRows ==
    RanTwice =>
        /\ DOMAIN loading_stats.table_stats = DOMAIN first_run.table_stats
        /\ \A t \in DOMAIN loading_stats.table_stats :
              loading_stats.table_stats[t].rows_loaded
                  = first_run.table_stats[t].rows_loaded

\* both runs loaded and counted a table whose relation held other rows
\* before the first run
C21_Witness ==
    /\ RanTwice
    /\ \E t \in DOMAIN loading_stats.table_stats :
         /\ loading_stats.table_stats[t].success
         /\ loading_stats.table_stats[t].rows_loaded > InitRows
         /\ run_log.tables[t].h.counted
         /\ store[t] = loading_stats.table_stats[t].rows_loaded

====
